---- MODULE Spec2Model ----
(***************************************************************************)
(* Model of insu_streamlit.py: a Streamlit script that loads three CSV     *)
(* files into pandas frames, registers them in an in-memory DuckDB         *)
(* connection and, on every user interaction, is re-run from top to        *)
(* bottom for the selected sidebar page.                                   *)
(*                                                                         *)
(* Tables are sequences of records.  An SQL value that may be NULL is a    *)
(* record [isnull, v].  FRAUD_RATE of the Overview queries (ROUND(..., 2)) *)
(* is an integer number of hundredths; FRAUD_RATE of the named queries     *)
(* (AVG(...) * 100, not rounded) is a reduced fraction [num, den].         *)
(***************************************************************************)
EXTENDS Integers, Sequences, FiniteSets, TLC

\* ---------------------------------------------------------------- bounds
MaxCust == 3
NProd == 6
MaxTie == 2

\* ------------------------------------------------------------- constants
CUSTOMERS_FILE == "cust.csv"
CNTT_FILE == "cntt.csv"
CLAIM_FILE == "claim.csv"
Files == {CUSTOMERS_FILE, CNTT_FILE, CLAIM_FILE}
TableNames == {"customers", "cntt", "claim"}
Limit == 5

\* ------------------------------------------------------------ SQL values
NULL == [isnull |-> TRUE, v |-> 0]
Val(n) == [isnull |-> FALSE, v |-> n]

\* three-valued comparison AGE < n
SqlLtNullFirst(a, n) ==
    IF a.isnull THEN "TRUE" ELSE IF a.v < n THEN "TRUE" ELSE "FALSE"
SqlLt(a, n) ==
    IF a.isnull THEN "NULL" ELSE IF a.v < n THEN "TRUE" ELSE "FALSE"

\* three-valued AGE BETWEEN lo AND hi
SqlBetween(a, lo, hi) ==
    IF a.isnull THEN "NULL"
    ELSE IF a.v >= lo /\ a.v <= hi THEN "TRUE" ELSE "FALSE"

\* CASE WHEN ... END AS AGE_GROUP: a branch is taken only when its
\* condition is TRUE; FALSE and NULL both fall through
AgeGroupInclusive(age) ==
    IF SqlLt(age, 26) = "TRUE" THEN "Under 25"
    ELSE IF SqlBetween(age, 25, 40) = "TRUE" THEN "25-40"
    ELSE IF SqlBetween(age, 41, 60) = "TRUE" THEN "41-60"
    ELSE "Above 60"
AGE_GROUP(age) ==
    IF SqlLt(age, 25) = "TRUE" THEN "Under 25"
    ELSE IF SqlBetween(age, 25, 40) = "TRUE" THEN "25-40"
    ELSE IF SqlBetween(age, 41, 60) = "TRUE" THEN "41-60"
    ELSE "Above 60"

\* ------------------------------------------------------------ aggregates
\* COUNT(*) over the rows of one group
CountDistinctFlag(rows) == Cardinality({r.SIU_CUST_YN : r \in rows})
CountStar(rows) == Cardinality(rows)

\* SUM(CASE WHEN SIU_CUST_YN = 'Y' THEN 1 ELSE 0 END)
SumFraud(rows) == Cardinality({r \in rows : r.SIU_CUST_YN = "Y"})

\* ROUND((fraud * 100.0) / total, 2), in hundredths, half away from zero
RoundTruncate(fraud, total) == (fraud * 10000) \div total
RoundTimes1000(fraud, total) == (2 * fraud * 100000 + total) \div (2 * total)
RoundRate(fraud, total) == (2 * fraud * 10000 + total) \div (2 * total)

RECURSIVE GCD(_, _)
GCD(a, b) == IF b = 0 THEN a ELSE GCD(b, a % b)

\* AVG(CASE WHEN SIU_CUST_YN = 'Y' THEN 1.0 ELSE 0.0 END) * 100, unrounded
AvgRate(fraud, total) ==
    LET g == GCD(100 * fraud, total)
    IN  [num |-> (100 * fraud) \div g, den |-> total \div g]

\* the rows of a frame, tagged with their position so that equal rows stay
\* distinct
RowSet(t) == {[i |-> i, SIU_CUST_YN |-> t[i].SIU_CUST_YN] : i \in DOMAIN t}

\* ---------------------------------------------------------- result order
\* a GROUP BY without ORDER BY returns its groups in an order the engine
\* does not define
RECURSIVE Orderings(_)
Orderings(S) ==
    IF S = {} THEN {<<>>}
    ELSE UNION {{<<x>> \o p : p \in Orderings(S \ {x})} : x \in S}

RateGeq(a, b) == a.num * b.den >= b.num * a.den

\* ORDER BY FRAUD_RATE desc: the rows that may come first
LowestRate(S) == {x \in S : \A y \in S : RateGeq(y.FRAUD_RATE, x.FRAUD_RATE)}
HighestRate(S) == {x \in S : \A y \in S : RateGeq(x.FRAUD_RATE, y.FRAUD_RATE)}

\* ORDER BY FRAUD_RATE desc Limit n: rows with equal FRAUD_RATE come in an
\* order the engine does not define
RECURSIVE OrderByLimit(_, _)
OrderByLimit(S, n) ==
    IF S = {} \/ n = 0 THEN {<<>>}
    ELSE UNION {{<<x>> \o p : p \in OrderByLimit(S \ {x}, n - 1)}
                : x \in HighestRate(S)}

\* ---------------------------------------------------------- the queries
\* lines 54-61
GenderFraudRateGroups(customers) ==
    {LET g == {r \in RowSet(customers) : customers[r.i].SEX = s}
     IN  [SEX |-> s, FRAUD_COUNT |-> SumFraud(g), TOTAL_COUNT |-> CountStar(g),
          FRAUD_RATE |-> RoundRate(SumFraud(g), CountStar(g))]
     : s \in {customers[i].SEX : i \in DOMAIN customers}}

\* lines 63-75
AgeFraudRateGroups(customers) ==
    {LET g == {r \in RowSet(customers) : AGE_GROUP(customers[r.i].AGE) = a}
     IN  [AGE_GROUP |-> a, FRAUD_COUNT |-> SumFraud(g),
          TOTAL_COUNT |-> CountStar(g),
          FRAUD_RATE |-> RoundRate(SumFraud(g), CountStar(g))]
     : a \in {AGE_GROUP(customers[i].AGE) : i \in DOMAIN customers}}

\* lines 100-107
FraudByGenderGroups(customers) ==
    {LET g == {r \in RowSet(customers) : customers[r.i].SEX = s}
     IN  [SEX |-> s, TOTAL_CUSTOMERS |-> CountStar(g),
          FRAUD_COUNT |-> SumFraud(g),
          FRAUD_RATE |-> AvgRate(SumFraud(g), CountStar(g))]
     : s \in {customers[i].SEX : i \in DOMAIN customers}}

\* lines 118-130
FraudByAgeGroups(customers) ==
    {LET g == {r \in RowSet(customers) : AGE_GROUP(customers[r.i].AGE) = a}
     IN  [AGE_GROUP |-> a, TOTAL_CUSTOMERS |-> CountStar(g),
          FRAUD_COUNT |-> SumFraud(g),
          FRAUD_RATE |-> AvgRate(SumFraud(g), CountStar(g))]
     : a \in {AGE_GROUP(customers[i].AGE) : i \in DOMAIN customers}}

\* FROM cntt JOIN customers ON cntt.CUST_ID = customers.CUST_ID: one joined
\* row per pair of a contract and a customer with equal CUST_ID
LeftJoin(cntt, customers) ==
    {[i |-> <<c, k>>, GOOD_CLSF_CDNM |-> cntt[c].GOOD_CLSF_CDNM,
      SIU_CUST_YN |-> customers[k].SIU_CUST_YN]
     : <<c, k>> \in {p \in (DOMAIN cntt) \X (DOMAIN customers)
                     : cntt[p[1]].CUST_ID = customers[p[2]].CUST_ID}}
    \cup
    {[i |-> <<c, 0>>, GOOD_CLSF_CDNM |-> cntt[c].GOOD_CLSF_CDNM,
      SIU_CUST_YN |-> "NULL"]
     : c \in {d \in DOMAIN cntt : \A k \in DOMAIN customers
                                   : cntt[d].CUST_ID # customers[k].CUST_ID}}
Join(cntt, customers) ==
    {[i |-> <<c, k>>, GOOD_CLSF_CDNM |-> cntt[c].GOOD_CLSF_CDNM,
      SIU_CUST_YN |-> customers[k].SIU_CUST_YN]
     : <<c, k>> \in {p \in (DOMAIN cntt) \X (DOMAIN customers)
                     : cntt[p[1]].CUST_ID = customers[p[2]].CUST_ID}}

\* lines 141-148
FraudByProductGroups(cntt, customers) ==
    LET j == Join(cntt, customers)
    IN  {LET g == {r \in j : r.GOOD_CLSF_CDNM = p}
         IN  [GOOD_CLSF_CDNM |-> p, TOTAL_POLICIES |-> CountStar(g),
              FRAUD_COUNT |-> SumFraud(g),
              FRAUD_RATE |-> AvgRate(SumFraud(g), CountStar(g))]
         : p \in {r.GOOD_CLSF_CDNM : r \in j}}

\* ------------------------------------------------------- table browsing
\* DataFrame.sort_values(by=key, ascending=True) returns a sorted copy; the
\* default sort is not stable, so rows with equal keys come in any order
RECURSIVE SortRows(_, _, _)
SortRows(t, I, key) ==
    IF I = {} THEN {<<>>}
    ELSE UNION {{<<t[i]>> \o s : s \in SortRows(t, I \ {i}, key)}
                : i \in {k \in I : \A j \in I : t[k][key] <= t[j][key]}}

SortValues(t, key) == SortRows(t, DOMAIN t, key)

\* Series.nunique()
NUnique(t, key) == Cardinality({t[i][key] : i \in DOMAIN t})

\* Series.count()
Count(t) == Len(t)

\* --------------------------------------------------------- ad-hoc queries
Q_COUNT == "SELECT COUNT(*) FROM customers"
Q_SYNTAX == "SELEC"
Q_COLUMN == "SELECT NO_SUCH_COLUMN FROM customers"
Q_DROP == "DROP VIEW customers"
Q_COPY == "COPY (SELECT * FROM customers LIMIT 0) TO 'cust.csv'"
AdHocQueries == {Q_COUNT, Q_SYNTAX, Q_COLUMN, Q_DROP, Q_COPY}

E_PARSER == "Parser Error: syntax error at or near SELEC"
E_BINDER == "Binder Error: Referenced column NO_SUCH_COLUMN not found"
E_CATALOG == "Catalog Error: Table with name customers does not exist"

\* conn.execute(sql).df() on a connection whose catalog is cat: the result
\* rows or the engine's error, the catalog and the files afterwards
Execute(cat, fs, sql) ==
    LET fail(msg) == [ok |-> FALSE, rows |-> <<>>, error |-> msg,
                      catalog |-> cat, files |-> fs]
        done(rows, c, f) == [ok |-> TRUE, rows |-> rows, error |-> "",
                             catalog |-> c, files |-> f]
    IN  IF sql = Q_SYNTAX THEN fail(E_PARSER)
        ELSE IF "customers" \notin DOMAIN cat THEN fail(E_CATALOG)
        ELSE IF sql = Q_COLUMN THEN fail(E_BINDER)
        ELSE IF sql = Q_COUNT
             THEN done(<<[count_star |-> Len(cat["customers"])]>>, cat, fs)
        ELSE IF sql = Q_DROP
             THEN done(<<>>, [n \in (DOMAIN cat) \ {"customers"} |-> cat[n]],
                       fs)
        ELSE done(<<[Count |-> 0]>>, cat,
                  [fs EXCEPT ![CUSTOMERS_FILE] = <<>>])

\* ------------------------------------------------------------------ state
VARIABLES
    files,          \* the CSV files on disk: file name -> table
    cache,          \* st.cache_data of load_csv_data: file name -> table
    loaded,         \* the three tables as first loaded (never assigned)
    customers_df,   \* the frames of the current script run
    cntt_df,
    claim_df,
    conn,           \* catalog of the current run's connection: name -> table
    shown           \* what the current script run rendered

vars == <<files, cache, loaded, customers_df, cntt_df, claim_df, conn, shown>>

\* @st.cache_data def load_csv_data(file_path): pd.read_csv(file_path)
LoadNoCache(path) == files[path]
load_csv_data(path) ==
    IF path \in DOMAIN cache THEN cache[path] ELSE files[path]

\* conn = duckdb.connect(':memory:') and the three conn.register calls
Register(c, k, m) ==
    [n \in TableNames |->
        IF n = "customers" THEN c ELSE IF n = "cntt" THEN k ELSE m]

NoTable == [query |-> "", result |-> <<>>]
NoAdHoc == [pressed |-> FALSE, query |-> "", hasTable |-> FALSE,
            table |-> <<>>, error |-> ""]
Blank == [menu |-> "", table |-> <<>>, metrics |-> <<>>, gender |-> <<>>,
          age |-> <<>>, named |-> NoTable, adhoc |-> NoAdHoc,
          exception |-> "", seen |-> {}]

\* lines 13-24, run at the top of every script run
Prelude ==
    /\ customers_df' = load_csv_data(CUSTOMERS_FILE)
    /\ cntt_df' = load_csv_data(CNTT_FILE)
    /\ claim_df' = load_csv_data(CLAIM_FILE)
    /\ cache' = [f \in Files |-> load_csv_data(f)]
    /\ loaded' = loaded

Fresh == Register(customers_df', cntt_df', claim_df')

\* lines 29-38
InsuranceDatabase(sel) ==
    /\ Prelude
    /\ conn' = Fresh
    /\ files' = files
    /\ \E rows \in (IF sel = "customers"
                      THEN SortValues(customers_df', "CUST_ID")
                    ELSE IF sel = "cntt"
                      THEN SortValues(cntt_df', "POLY_NO")
                    ELSE SortValues(claim_df', "POLY_NO")) :
          shown' = [Blank EXCEPT !.menu = "Insurance Database",
                                 !.table = rows]

\* lines 40-86
Overview ==
    /\ Prelude
    /\ conn' = Fresh
    /\ files' = files
    /\ \E g \in Orderings(GenderFraudRateGroups(Fresh["customers"])),
          a \in Orderings(AgeFraudRateGroups(Fresh["customers"])) :
          shown' = [Blank EXCEPT
                      !.menu = "Overview",
                      !.metrics = <<NUnique(customers_df', "CUST_ID"),
                                    NUnique(cntt_df', "POLY_NO"),
                                    Count(claim_df')>>,
                      !.gender = g,
                      !.age = a,
                      !.seen = {Fresh}]

NamedQueries ==
    {"Fraud by Gender", "Fraud by Age Group", "Fraud by insurance products"}

\* lines 99-150: the result of the selected analysis query
RunNamed(cat, q) ==
    IF q = "Fraud by Gender"
      THEN Orderings(FraudByGenderGroups(cat["customers"]))
    ELSE IF q = "Fraud by Age Group"
      THEN Orderings(FraudByAgeGroups(cat["customers"]))
    ELSE OrderByLimit(FraudByProductGroups(cat["cntt"], cat["customers"]),
                      Limit)

\* lines 180-186: the Execute Query handler
HandlerNoText(r) ==
    IF r.ok
      THEN [pressed |-> TRUE, query |-> "", hasTable |-> TRUE,
            table |-> r.rows, error |-> ""]
      ELSE [pressed |-> TRUE, query |-> "", hasTable |-> FALSE,
            table |-> <<>>, error |-> "Error: "]
Handler(r) ==
    IF r.ok
      THEN [pressed |-> TRUE, query |-> "", hasTable |-> TRUE,
            table |-> r.rows, error |-> ""]
      ELSE [pressed |-> TRUE, query |-> "", hasTable |-> FALSE,
            table |-> <<>>, error |-> "Error: " \o r.error]

\* lines 88-161 with the button of line 181 not pressed
AnalysisQuery(q) ==
    /\ Prelude
    /\ conn' = Fresh
    /\ files' = files
    /\ \E res \in RunNamed(Fresh, q) :
          shown' = [Blank EXCEPT
                      !.menu = "Queries and Visualizations",
                      !.named = [query |-> q, result |-> res],
                      !.seen = {Fresh}]

\* lines 88-186 with the button of line 181 pressed
ExecuteQuery(q, sql) ==
    /\ Prelude
    /\ LET r == Execute(Fresh, files, sql)
       IN  /\ conn' = r.catalog
           /\ files' = r.files
           /\ \E res \in RunNamed(Fresh, q) :
                 shown' = [Blank EXCEPT
                             !.menu = "Queries and Visualizations",
                             !.named = [query |-> q, result |-> res],
                             !.adhoc = [Handler(r) EXCEPT !.query = sql],
                             !.seen = {Fresh}]

\* lines 188-243
Summaries ==
    /\ Prelude
    /\ conn' = Fresh
    /\ files' = files
    /\ shown' = [Blank EXCEPT !.menu = "Summaries and Action Plans"]

Next ==
    \/ \E sel \in TableNames : InsuranceDatabase(sel)
    \/ Overview
    \/ \E q \in NamedQueries : AnalysisQuery(q)
    \/ \E q \in NamedQueries, sql \in AdHocQueries : ExecuteQuery(q, sql)
    \/ Summaries

\* ------------------------------------------------------------ the inputs
Cust(id, sex, age, yn) ==
    [CUST_ID |-> id, SEX |-> sex, AGE |-> age, SIU_CUST_YN |-> yn]

\* the kinds of customer row of the generated tables
CustKind(id, k) ==
    Cust(id, IF k % 2 = 0 THEN "M" ELSE "F",
         IF k \div 4 = 0 THEN Val(70) ELSE NULL,
         IF (k \div 2) % 2 = 0 THEN "N" ELSE "Y")

NonDecreasing(n, K) ==
    {s \in [1..n -> K] : \A i \in 1..n, j \in 1..n : i <= j => s[i] <= s[j]}

GeneratedCustomers ==
    UNION {{[i \in 1..n |-> CustKind(i, s[i])] : s \in NonDecreasing(n, 0..7)}
           : n \in 0..MaxCust}

\* the scenarios of the specification and the bucket boundaries
ScenarioCustomers ==
    {<<Cust(1, "M", Val(30), "Y"), Cust(2, "M", Val(50), "N"),
       Cust(3, "F", Val(20), "N")>>,
     <<Cust(1, "M", Val(10), "N"), Cust(2, "F", Val(30), "Y"),
       Cust(3, "M", Val(50), "N"), Cust(4, "F", Val(70), "Y")>>}
    \cup {<<Cust(1, "F", Val(a), "Y")>> : a \in {24, 25, 40, 41, 60, 61}}

Cntt(no, id, good) == [POLY_NO |-> no, CUST_ID |-> id, GOOD_CLSF_CDNM |-> good]
Claim(no, id) == [POLY_NO |-> no, CUST_ID |-> id]

SmallCntt == <<Cntt(2, 9, 2), Cntt(1, 1, 1)>>
SmallClaim == <<Claim(2, 1), Claim(1, 1), Claim(1, 2)>>

\* the customers of the contract tables: customer 1 is flagged, customer 2
\* is not, customer 3 does not exist
ProductCustomers ==
    {<<Cust(1, "M", Val(30), "Y"), Cust(2, "F", Val(50), "N")>>}

\* a customers table that repeats CUST_ID 1
RepeatedCustomers ==
    {<<Cust(1, "M", Val(30), "Y"), Cust(2, "F", Val(50), "N"),
       Cust(1, "F", Val(50), "N")>>}

\* the customers of the contracts of one product
Profiles == <<<<3>>, <<1>>, <<1, 1, 2>>, <<1, 2>>, <<2, 3>>>>

RECURSIVE ContractsOf(_, _)
ContractsOf(s, p) ==
    IF p > Len(s) THEN <<>>
    ELSE [i \in 1..Len(Profiles[s[p]]) |-> <<Profiles[s[p]][i], p>>]
         \o ContractsOf(s, p + 1)

GeneratedCntt ==
    {LET c == ContractsOf(s, 1)
     IN  [i \in 1..Len(c) |-> Cntt(Len(c) + 1 - i, c[i][1], c[i][2])]
     : s \in {t \in NonDecreasing(NProd, DOMAIN Profiles)
              : \A v \in DOMAIN Profiles
                  : Cardinality({i \in 1..NProd : t[i] = v}) <= MaxTie}}

\* the state after the first script run: page "Insurance Database", table
\* "customers"
Init ==
    /\ \E c \in GeneratedCustomers \cup ScenarioCustomers
                \cup ProductCustomers \cup RepeatedCustomers,
          k \in {SmallCntt} \cup GeneratedCntt :
          /\ (c \in ProductCustomers \/ k = SmallCntt)
          /\ files = [f \in Files |->
                        IF f = CUSTOMERS_FILE THEN c
                        ELSE IF f = CNTT_FILE THEN k ELSE SmallClaim]
    /\ cache = files
    /\ loaded = Register(files[CUSTOMERS_FILE], files[CNTT_FILE],
                         files[CLAIM_FILE])
    /\ customers_df = files[CUSTOMERS_FILE]
    /\ cntt_df = files[CNTT_FILE]
    /\ claim_df = files[CLAIM_FILE]
    /\ conn = loaded
    /\ \E rows \in SortValues(customers_df, "CUST_ID") :
          shown = [Blank EXCEPT !.menu = "Insurance Database",
                                !.table = rows]

Spec == Init /\ [][Next]_vars

\* =================================================================== claims
\* the displayed grouped results, in one shape: <<key, total, fraud, rate>>
OverviewShown == shown.menu = "Overview"
NamedShown(q) == shown.named.query = q

OvGender ==
    [i \in DOMAIN shown.gender |->
        [key |-> shown.gender[i].SEX, total |-> shown.gender[i].TOTAL_COUNT,
         fraud |-> shown.gender[i].FRAUD_COUNT,
         rate |-> shown.gender[i].FRAUD_RATE]]
OvAge ==
    [i \in DOMAIN shown.age |->
        [key |-> shown.age[i].AGE_GROUP, total |-> shown.age[i].TOTAL_COUNT,
         fraud |-> shown.age[i].FRAUD_COUNT,
         rate |-> shown.age[i].FRAUD_RATE]]
NmGender ==
    [i \in DOMAIN shown.named.result |->
        [key |-> shown.named.result[i].SEX,
         total |-> shown.named.result[i].TOTAL_CUSTOMERS,
         fraud |-> shown.named.result[i].FRAUD_COUNT,
         rate |-> shown.named.result[i].FRAUD_RATE]]
NmAge ==
    [i \in DOMAIN shown.named.result |->
        [key |-> shown.named.result[i].AGE_GROUP,
         total |-> shown.named.result[i].TOTAL_CUSTOMERS,
         fraud |-> shown.named.result[i].FRAUD_COUNT,
         rate |-> shown.named.result[i].FRAUD_RATE]]
NmProduct ==
    [i \in DOMAIN shown.named.result |->
        [key |-> shown.named.result[i].GOOD_CLSF_CDNM,
         total |-> shown.named.result[i].TOTAL_POLICIES,
         fraud |-> shown.named.result[i].FRAUD_COUNT,
         rate |-> shown.named.result[i].FRAUD_RATE]]

\* the age-group result on display, if any, and the gender result
AgeShown == OverviewShown \/ NamedShown("Fraud by Age Group")
AgeRows == IF OverviewShown THEN OvAge ELSE NmAge
GenderShown == OverviewShown \/ NamedShown("Fraud by Gender")
GenderRows == IF OverviewShown THEN OvGender ELSE NmGender
ProductShown == NamedShown("Fraud by insurance products")

RECURSIVE SumTotal(_, _)
SumTotal(rows, key) ==
    IF rows = <<>> THEN 0
    ELSE (IF rows[1].key = key THEN rows[1].total ELSE 0)
         + SumTotal(Tail(rows), key)

RECURSIVE SumAll(_)
SumAll(rows) ==
    IF rows = <<>> THEN 0 ELSE rows[1].total + SumAll(Tail(rows))

OneRowPerKey(rows) ==
    \A i \in DOMAIN rows, j \in DOMAIN rows : rows[i].key = rows[j].key => i = j

Labels == {"Under 25", "25-40", "41-60", "Above 60"}
InBucket(label, a) ==
    IF label = "Under 25" THEN a < 25
    ELSE IF label = "25-40" THEN 25 <= a /\ a <= 40
    ELSE IF label = "41-60" THEN 41 <= a /\ a <= 60
    ELSE a > 60

NoNullAge == \A i \in DOMAIN customers_df : ~customers_df[i].AGE.isnull

\* C1: when no age is null, the age-group result of the Overview and of
\* 'Fraud by Age Group' has only the four labels, each at most once, and the
\* group of a label counts exactly the customers whose age is in the label's
\* range (< 25, 25..40, 41..60, > 60): every age is in exactly one group.
C1_AgeBucketing ==
    (AgeShown /\ NoNullAge) =>
        /\ \A i \in DOMAIN AgeRows : AgeRows[i].key \in Labels
        /\ OneRowPerKey(AgeRows)
        /\ \A l \in Labels :
              SumTotal(AgeRows, l)
                = Cardinality({i \in DOMAIN customers_df
                               : InBucket(l, customers_df[i].AGE.v)})

C1_Witness ==
    /\ NamedShown("Fraud by Age Group")
    /\ Len(customers_df) = 4
    /\ \A i \in 1..4 : customers_df[i].AGE = Val(20 * i - 10)
    /\ \A l \in Labels : SumTotal(AgeRows, l) = 1

\* C2: in every grouped result on display fraud_count <= total_count and
\* 0 <= fraud_rate <= 100.
C2_CountAndRateRange ==
    /\ OverviewShown =>
          \A r \in {OvGender[i] : i \in DOMAIN OvGender}
                   \cup {OvAge[i] : i \in DOMAIN OvAge} :
              r.fraud <= r.total /\ 0 <= r.rate /\ r.rate <= 10000
    /\ \A r \in (IF NamedShown("Fraud by Gender")
                   THEN {NmGender[i] : i \in DOMAIN NmGender}
                 ELSE IF NamedShown("Fraud by Age Group")
                   THEN {NmAge[i] : i \in DOMAIN NmAge}
                 ELSE IF ProductShown
                   THEN {NmProduct[i] : i \in DOMAIN NmProduct}
                 ELSE {}) :
          /\ r.fraud <= r.total
          /\ r.rate.den > 0
          /\ 0 <= r.rate.num
          /\ r.rate.num <= 100 * r.rate.den

C2_Witness ==
    /\ OverviewShown
    /\ \E i \in DOMAIN OvGender :
          OvGender[i].fraud = OvGender[i].total /\ OvGender[i].rate = 10000
    /\ \E i \in DOMAIN OvGender :
          OvGender[i].fraud = 0 /\ OvGender[i].rate = 0

\* C3: the 'Fraud by insurance products' result has at most 5 rows, is
\* sorted non-increasing by fraud_rate, and no product group left out of it
\* has a fraud_rate strictly greater than a group in it.
C3_TopFive ==
    ProductShown =>
        LET res == shown.named.result
            out == FraudByProductGroups(cntt_df, customers_df)
                     \ {res[i] : i \in DOMAIN res}
        IN  /\ Len(res) <= 5
            /\ \A i \in DOMAIN res, j \in DOMAIN res :
                  i < j => res[i].FRAUD_RATE.num * res[j].FRAUD_RATE.den
                             >= res[j].FRAUD_RATE.num * res[i].FRAUD_RATE.den
            /\ \A g \in out, i \in DOMAIN res :
                  g.FRAUD_RATE.num * res[i].FRAUD_RATE.den
                    <= res[i].FRAUD_RATE.num * g.FRAUD_RATE.den

C3_Witness ==
    /\ ProductShown
    /\ Len(shown.named.result) = 5
    /\ shown.named.result[1].FRAUD_RATE # shown.named.result[5].FRAUD_RATE
    /\ \E g \in FraudByProductGroups(cntt_df, customers_df) :
          /\ \A i \in 1..5 : shown.named.result[i] # g
          /\ g.FRAUD_RATE # shown.named.result[5].FRAUD_RATE

\* the outcome of the engine on the ad-hoc query of the current run
AdHocOutcome ==
    Execute(Register(customers_df, cntt_df, claim_df), files,
            shown.adhoc.query)

\* the catalog the next script run registers
NextCatalog ==
    Register(load_csv_data(CUSTOMERS_FILE), load_csv_data(CNTT_FILE),
             load_csv_data(CLAIM_FILE))

\* C4: when the ad-hoc query of 'Execute Query' fails in the engine, the
\* handler shows one error message carrying the engine's error text and no
\* result table, no exception escapes the script run, the connection is as
\* registered, and the next script run can run every named query and an
\* ad-hoc query on the three tables.
C4_AdHocFailure ==
    (shown.adhoc.pressed /\ ~AdHocOutcome.ok) =>
        /\ shown.adhoc.error = "Error: " \o AdHocOutcome.error
        /\ AdHocOutcome.error # ""
        /\ ~shown.adhoc.hasTable
        /\ shown.adhoc.table = <<>>
        /\ shown.exception = ""
        /\ conn = Register(customers_df, cntt_df, claim_df)
        /\ \A q \in NamedQueries : RunNamed(NextCatalog, q) # {}
        /\ Execute(NextCatalog, files, Q_COUNT).ok

C4_Witness ==
    /\ shown.adhoc.pressed
    /\ shown.adhoc.query = Q_COLUMN
    /\ shown.adhoc.error = "Error: " \o E_BINDER
    /\ ~shown.adhoc.hasTable

C6_ProductsRepeatable ==
    [][(ProductShown /\ shown'.named.query = "Fraud by insurance products")
         => shown'.named.result = shown.named.result]_vars

\* number of rows of the group of a displayed row, and of its flagged rows
GenderGroup(s) == {i \in DOMAIN customers_df : customers_df[i].SEX = s}
AgeGroup(a) ==
    {i \in DOMAIN customers_df : AGE_GROUP(customers_df[i].AGE) = a}
Flagged(g) == {i \in g : customers_df[i].SIU_CUST_YN = "Y"}
ProductGroup(p) ==
    {x \in (DOMAIN cntt_df) \X (DOMAIN customers_df)
     : /\ cntt_df[x[1]].GOOD_CLSF_CDNM = p
       /\ cntt_df[x[1]].CUST_ID = customers_df[x[2]].CUST_ID}
ProductFlagged(p) ==
    {x \in ProductGroup(p) : customers_df[x[2]].SIU_CUST_YN = "Y"}

Abs(x) == IF x < 0 THEN -x ELSE x

\* r hundredths is fraud / total * 100 rounded to 2 decimal places
IsRounded(r, fraud, total) == 2 * Abs(10000 * fraud - r * total) <= total

\* the fraction rate is a value of 2 decimal places, the rounded percentage
ShowsRounded(rate, fraud, total) ==
    /\ (100 * rate.num) % rate.den = 0
    /\ IsRounded((100 * rate.num) \div rate.den, fraud, total)

\* the fraction rate is exactly fraud / total * 100
IsExact(rate, fraud, total) == rate.num * total = 100 * fraud * rate.den

CountsRight ==
    /\ OverviewShown =>
          /\ \A i \in DOMAIN OvGender :
                /\ OvGender[i].total = Cardinality(GenderGroup(OvGender[i].key))
                /\ OvGender[i].fraud
                     = Cardinality(Flagged(GenderGroup(OvGender[i].key)))
          /\ \A i \in DOMAIN OvAge :
                /\ OvAge[i].total = Cardinality(AgeGroup(OvAge[i].key))
                /\ OvAge[i].fraud
                     = Cardinality(Flagged(AgeGroup(OvAge[i].key)))
    /\ NamedShown("Fraud by Gender") =>
          \A i \in DOMAIN NmGender :
              /\ NmGender[i].total = Cardinality(GenderGroup(NmGender[i].key))
              /\ NmGender[i].fraud
                   = Cardinality(Flagged(GenderGroup(NmGender[i].key)))
    /\ NamedShown("Fraud by Age Group") =>
          \A i \in DOMAIN NmAge :
              /\ NmAge[i].total = Cardinality(AgeGroup(NmAge[i].key))
              /\ NmAge[i].fraud = Cardinality(Flagged(AgeGroup(NmAge[i].key)))
    /\ ProductShown =>
          \A i \in DOMAIN NmProduct :
              /\ NmProduct[i].total
                   = Cardinality(ProductGroup(NmProduct[i].key))
              /\ NmProduct[i].fraud
                   = Cardinality(ProductFlagged(NmProduct[i].key))

OverviewRatesRounded ==
    OverviewShown =>
        \A r \in {OvGender[i] : i \in DOMAIN OvGender}
                 \cup {OvAge[i] : i \in DOMAIN OvAge} :
            IsRounded(r.rate, r.fraud, r.total)

NamedRows ==
    IF NamedShown("Fraud by Gender")
      THEN {NmGender[i] : i \in DOMAIN NmGender}
    ELSE IF NamedShown("Fraud by Age Group")
      THEN {NmAge[i] : i \in DOMAIN NmAge}
    ELSE IF ProductShown THEN {NmProduct[i] : i \in DOMAIN NmProduct}
    ELSE {}

\* C7 as stated: in every grouped result, of the Overview and of the three
\* named queries, the counts are those of the group and the displayed
\* fraud_rate is fraud_count / total_count * 100 rounded to 2 decimal places.
C7_RoundedEverywhere ==
    /\ CountsRight
    /\ OverviewRatesRounded
    /\ \A r \in NamedRows : ShowsRounded(r.rate, r.fraud, r.total)

\* C7 amended: the counts are those of the group in every grouped result;
\* the fraud_rate of the Overview aggregates is the percentage rounded to 2
\* decimal places; the fraud_rate of the three named queries is the
\* percentage itself, not rounded.
C7_RoundedInOverviewOnly ==
    /\ CountsRight
    /\ OverviewRatesRounded
    /\ \A r \in NamedRows : IsExact(r.rate, r.fraud, r.total)

C7_Witness ==
    /\ OverviewShown
    /\ \E i \in DOMAIN OvGender :
          /\ OvGender[i].total = 3
          /\ OvGender[i].fraud = 2
          /\ OvGender[i].rate = 6667

UniqueCustId ==
    \A i \in DOMAIN customers_df, j \in DOMAIN customers_df :
        customers_df[i].CUST_ID = customers_df[j].CUST_ID => i = j

\* the contracts of product p whose customer exists, and those of them
\* whose customer is flagged
Matched(p) ==
    {c \in DOMAIN cntt_df :
        /\ cntt_df[c].GOOD_CLSF_CDNM = p
        /\ \E k \in DOMAIN customers_df :
              customers_df[k].CUST_ID = cntt_df[c].CUST_ID}
MatchedFlagged(p) ==
    {c \in Matched(p) :
        \E k \in DOMAIN customers_df :
            /\ customers_df[k].CUST_ID = cntt_df[c].CUST_ID
            /\ customers_df[k].SIU_CUST_YN = "Y"}

C9_GroupsNonEmpty ==
    /\ shown.exception = ""
    /\ GenderShown =>
          /\ \A i \in DOMAIN GenderRows : GenderRows[i].total >= 1
          /\ SumAll(GenderRows) = Len(customers_df)
          /\ customers_df = <<>> => GenderRows = <<>>
    /\ AgeShown =>
          /\ \A i \in DOMAIN AgeRows : AgeRows[i].total >= 1
          /\ SumAll(AgeRows) = Len(customers_df)
          /\ customers_df = <<>> => AgeRows = <<>>

C9_Witness ==
    /\ OverviewShown
    /\ Len(customers_df) = 3
    /\ Len(OvGender) = 2
    /\ SumAll(OvGender) = 3
    /\ SumAll(OvAge) = 3

C9_WitnessEmpty ==
    /\ NamedShown("Fraud by Gender")
    /\ customers_df = <<>>
    /\ shown.named.result = <<>>

\* C10: a customer whose AGE is null is counted in the 'Above 60' group of
\* both age-group results: that group counts the customers whose age is
\* null or > 60, the other groups count only ages in their range, no row is
\* dropped and no error is raised.
C10_NullAgeAbove60 ==
    AgeShown =>
        /\ shown.exception = ""
        /\ SumAll(AgeRows) = Len(customers_df)
        /\ OneRowPerKey(AgeRows)
        /\ \A l \in Labels :
              SumTotal(AgeRows, l)
                = Cardinality({i \in DOMAIN customers_df :
                                 IF customers_df[i].AGE.isnull
                                   THEN l = "Above 60"
                                   ELSE InBucket(l, customers_df[i].AGE.v)})

C10_Witness ==
    /\ OverviewShown
    /\ Len(customers_df) = 2
    /\ customers_df[1].AGE = Val(70)
    /\ customers_df[2].AGE = NULL
    /\ Len(OvAge) = 1
    /\ OvAge[1].key = "Above 60"
    /\ OvAge[1].total = 2

====
